---- MODULE Spec2Model ----
(***************************************************************************)
(* A model of the programs of the aws-labs repository: the tweet listener  *)
(* (sentiment.py), the AMI smoke-test shell scripts, the Elasticsearch /   *)
(* Kibana container build, and the training loops of the vendored PyTorch  *)
(* tutorials.  The programs are independent of each other: a behaviour of  *)
(* the model runs exactly one of them, chosen by prog in Init.             *)
(***************************************************************************)
EXTENDS Integers, Sequences, FiniteSets, TLC

(***************************************************************************)
(* Bounds of the model.                                                    *)
(***************************************************************************)
\* number of messages the stream delivers to the listener
MaxTweets == 2
\* polarity is k / PolScale for k in -PolScale .. PolScale, i.e. in [-1, 1]
PolScale == 2
\* evaluate() returns a validation loss in 1 .. MaxLoss
MaxLoss == 3
\* train_model is called with num_epochs in 0 .. MaxEpochs
MaxEpochs == 3
\* the batches of dataloaders['train'] and of dataloaders['val']
NumBatches == 2

\* batchify is given 1 .. MaxData tokens
MaxData == 26
\* and a batch size in 1 .. MaxBsz
MaxBsz == 4
\* bptt is in 1 .. MaxBptt
MaxBptt == 3

\* predict is given a line of 0 .. MaxLine characters
MaxLine == 3
\* the char-RNN training loop runs 0 .. MaxIters iterations
MaxIters == 4
\* and plots every 1 .. MaxPlotEvery iterations
MaxPlotEvery == 2

\* epochs = 3, line 1849 of the transformer tutorial
epochs == 3

VARIABLES
    prog,        \* the program this behaviour runs
    calls,       \* sentiment.py: the on_data calls so far: message and outcome
    es,          \* sentiment.py: the es.index calls received by Elasticsearch
    errors,      \* sentiment: every on_error call so far: the status and what was returned
    pc,          \* shell scripts: the line the script is about to execute
    status,      \* shell scripts: the exit status, -1 while the script runs
    trace,       \* shell scripts: the commands executed so far, <<command, output>>
    servers,     \* shell scripts: the model servers started and not yet stopped
    env,         \* shell scripts: the active conda environment
    RETVALAML,   \* testMMS: the shell variable, -1 while unset
    MMS_LOG,     \* testMMS: the files ${MMS_LOG3} / ${MMS_LOG4}: name -> body
    responses,   \* testMMS: the prediction responses received so far
    fs,          \* container: the files of the image: path -> lines, exec, owner
    image,       \* container: the image's users, USER, EXPOSE and ENTRYPOINT
    procs,       \* container: the processes the entrypoint has launched, in order
    ip,          \* container: the line of the entrypoint script bash runs next
    model,       \* training: the parameters of the model object
    epoch,       \* training: the loop variable of the epoch loop
    scheduler,   \* training: the scheduler.step() calls so far
    history,     \* training: per finished epoch, its validation score and the
                 \*   parameters the model had when it was validated
    best_model,  \* transformer: "None" or "model", a reference to the model object
    best_val_loss, \* transformer
    val_loss,    \* transformer: the value evaluate(model, val_data) returned
    test_params, \* transformer: the parameters the test evaluation ran with
    num_epochs,  \* train_model: the argument
    phase,       \* train_model: 'train' or 'val'
    batch,       \* train_model: the batches of the phase done so far
    running_corrects, \* train_model
    best_acc,    \* train_model
    best_model_wts, \* train_model: a deep copy of the parameters
    data,        \* language-model data: the token sequence given to batchify
    bsz,         \* language-model data: the batch size given to batchify
    bptt,        \* language-model data: the chunk length
    source,      \* language-model data: batchify(data, bsz), a list of rows
    lm_i,        \* language-model data: the loop variable i of train()'s batch loop
    got,         \* language-model data: what the last get_batch(source, i) returned
    src_mask,    \* language-model data: the attention mask train() holds
    input_line,  \* predict: the line given to predict(), a sequence of characters
    tensor,      \* predict: the tensor lineToTensor is filling
    li,          \* predict: the position lineToTensor's loop is at
    n_iters,     \* char-RNN training: the number of iterations
    plot_every,  \* char-RNN training: the iterations per plotted point
    iter,        \* char-RNN training: the loop variable
    current_loss, \* char-RNN training: the sum of the losses since the last reset
    all_losses,  \* char-RNN training: the averages, each <<numerator, denominator>>
    losses,      \* char-RNN training: the loss of every iteration so far
    results      \* test scripts: the exit status of every test step run so far

sentimentVars == <<calls, es, errors>>
scriptVars == <<trace, servers, env, RETVALAML, MMS_LOG, responses>>
dockerVars == <<fs, image, procs, ip>>
trVars == <<best_model, best_val_loss, val_loss, test_params>>
tmVars == <<num_epochs, phase, batch, running_corrects, best_acc, best_model_wts>>
trainVars == <<model, epoch, scheduler, history, trVars, tmVars>>
lmVars == <<data, bsz, bptt, source, lm_i, got, src_mask>>
predictVars == <<input_line, tensor, li>>
rnnVars == <<n_iters, plot_every, iter, current_loss, all_losses, losses>>
testVars == <<results>>
vars == <<prog, pc, status, sentimentVars, scriptVars, dockerVars, trainVars, lmVars,
          predictVars, rnnVars, testVars>>

\* what the actions of one program leave unchanged: the other programs' state
exceptSentiment == <<pc, status, scriptVars, dockerVars, trainVars, lmVars, predictVars, rnnVars, testVars>>
exceptScript == <<sentimentVars, dockerVars, trainVars, lmVars, predictVars, rnnVars, testVars>>
exceptDocker == <<sentimentVars, scriptVars, trainVars, lmVars, predictVars, rnnVars, testVars>>
exceptTrain == <<status, sentimentVars, scriptVars, dockerVars, lmVars, predictVars, rnnVars, testVars>>
exceptLm == <<status, sentimentVars, scriptVars, dockerVars, trainVars, predictVars, rnnVars, testVars>>
exceptPredict == <<status, sentimentVars, scriptVars, dockerVars, trainVars, lmVars, rnnVars, testVars>>
exceptRnn == <<status, sentimentVars, scriptVars, dockerVars, trainVars, lmVars, predictVars, testVars>>
exceptTest == <<sentimentVars, dockerVars, trainVars, lmVars, predictVars, rnnVars>>

Programs == {"sentiment", "testMMS", "testTorchServe", "testTFServing", "docker",
     "transformer", "train_model", "lm_data", "predict", "rnn_train",
     "testMXNet", "testPyTorch"}

(***************************************************************************)
(* sentiment.py (README of the twitter-sentiment lab)                      *)
(***************************************************************************)
ScreenNames == {"alice", "bob"}
Dates == {"Mon Nov 02"}
Texts == {"good", "bad"}

\* a decoded status message of the stream: a tweet
Tweets ==
    [text : Texts, created_at : Dates, user : [screen_name : ScreenNames]]

\* a decoded message of the stream that is not a tweet (it has no "text")
Notices == {[limit |-> [track |-> 1]]}

Messages == Tweets \cup Notices

\* the values tweet.sentiment.polarity can take (scaled by PolScale)
Polarities == (0 - PolScale) .. PolScale

\* the values tweet.sentiment.subjectivity can take (0.0 or 1.0 here)
Subjectivities == {0, 1}

HasKey(d, k) == k \in DOMAIN d

\* the if / elif / else of on_data
SentimentOfGE(polarity) ==
    IF polarity <= 0 THEN "negative"
    ELSE IF polarity = 0 THEN "neutral"
    ELSE "positive"

SentimentOf(polarity) ==
    IF polarity < 0 THEN "negative"
    ELSE IF polarity = 0 THEN "neutral"
    ELSE "positive"

\* the keyword arguments of the es.index call of on_data
IndexCallOther(dict_data, polarity, subjectivity) ==
    [index |-> "sentiment",
     doc_type |-> "test-type",
     body |-> [author |-> dict_data["text"],
               date |-> dict_data["created_at"],
               message |-> dict_data["text"],
               polarity |-> polarity,
               subjectivity |-> subjectivity,
               sentiment |-> SentimentOf(polarity)]]

IndexCall(dict_data, polarity, subjectivity) ==
    [index |-> "sentiment",
     doc_type |-> "test-type",
     body |-> [author |-> dict_data["user"]["screen_name"],
               date |-> dict_data["created_at"],
               message |-> dict_data["text"],
               polarity |-> polarity,
               subjectivity |-> subjectivity,
               sentiment |-> SentimentOf(polarity)]]

\* TweetStreamListener.on_data: dict_data is json.loads(data); polarity and
\* subjectivity are what TextBlob(dict_data["text"]).sentiment returns.
\* A message without "text" raises KeyError before anything is indexed.
on_data ==
    /\ prog = "sentiment"
    /\ Len(calls) + Len(errors) < MaxTweets
    /\ errors' = errors
    /\ \E dict_data \in Messages :
          IF HasKey(dict_data, "text")
          THEN \E polarity \in Polarities, subjectivity \in Subjectivities :
                  /\ es' = Append(es, IndexCall(dict_data, polarity, subjectivity))
                  /\ calls' = Append(calls, [data |-> dict_data, result |-> "True"])
          ELSE /\ calls' = Append(calls, [data |-> dict_data, result |-> "KeyError"])
               /\ es' = es
    /\ UNCHANGED <<prog, exceptSentiment>>

\* HTTP statuses the stream reports to on_error: unauthorized, rate limited
StatusCodes == {401, 420}

\* TweetStreamListener.on_error: print(status); a function without a return
\* statement returns None
on_error ==
    /\ prog = "sentiment"
    /\ Len(calls) + Len(errors) < MaxTweets
    /\ \E code \in StatusCodes :
          errors' = Append(errors, [status |-> code, result |-> "None"])
    /\ UNCHANGED <<prog, exceptSentiment, calls, es>>

(***************************************************************************)
(* Shell scripts: common definitions                                       *)
(***************************************************************************)
Exited == status >= 0

\* the exit statuses of a curl that could not talk to the server
CurlErrors == {7, 52}

\* the script ends with the given status; nothing else changes
Exit(code) ==
    /\ status' = code
    /\ pc' = "exited"

Run(cmds) == trace' = trace \o cmds

\* set -e: from line 15 on, a command that fails ends the script with the
\* command's status (commands of an || list or an if condition excepted)
errexit_off == FALSE

errexit == TRUE

Fails(r) == errexit /\ r # 0

\* the body of a prediction response: the class names it lists
Responses == {<<>>, <<"tabby">>, <<"tabby", "Egyptian cat">>}

\* grep PATTERN: status 0 when some line holds the pattern, else 1
GrepAlways(body, pattern) == 0

Grep(body, pattern) ==
    IF \E i \in DOMAIN body : body[i] = pattern THEN 0 ELSE 1

IsStart(e) ==
    e[1] \in {"multi-model-server --start &", "torchserve --start &",
              "tensorflow_model_server &"}
IsStop(e) == e[1] \in {"multi-model-server --stop", "torchserve --stop", "kill -9"}
IsSleep(e) == e[1] = "sleep"
IsHttp(e) == e[1] \in {"curl -X PUT", "curl -X POST", "curl -T"}
IsRequest(e) == IsHttp(e) \/ e[1] = "mnist_client.py"

(***************************************************************************)
(* testMMS (aws-dl-ami/src/bin/testMMS, lines 1-71)                        *)
(***************************************************************************)
\* the two blocks of the script, lines 37-48 and 50-61
MmsBlocks ==
    {[env |-> "mxnet_p36", activate |-> "L37", start |-> "L40", post |-> "L41",
      grep |-> "L42", stop |-> "L44", check |-> "L45", log |-> "MMS_LOG3",
      next |-> "L50"],
     [env |-> "mxnet_latest_p37", activate |-> "L50", start |-> "L53",
      post |-> "L54", grep |-> "L55", stop |-> "L57", check |-> "L58",
      log |-> "MMS_LOG4", next |-> "L64"]}

\* line 34: curl -O .../kitten.jpg
MmsDownload ==
    /\ prog = "testMMS" /\ pc = "L34"
    /\ \E r \in {0} \cup CurlErrors :
          /\ Run(<< <<"curl -O", "kitten.jpg">> >>)
          /\ IF Fails(r) THEN Exit(r) ELSE pc' = "L37" /\ status' = status
    /\ UNCHANGED <<prog, exceptScript, servers, env, RETVALAML, MMS_LOG, responses>>

\* lines 37-39 and 50-52: source activate; sleep 20
MmsActivate(b) ==
    /\ prog = "testMMS" /\ pc = b.activate
    /\ env' = b.env
    /\ Run(<< <<"source activate", b.env>>, <<"sleep", "20">> >>)
    /\ pc' = b.start
    /\ UNCHANGED <<prog, exceptScript, status, servers, RETVALAML, MMS_LOG, responses>>

\* the commands of start_mms_server, lines 17-23
start_mms_server_nosleep(e) ==
    << <<"multi-model-server --start &", e>>,
       <<"curl -X PUT", "localhost:8081/models/squeezenet">> >>

start_mms_server_retry(e) ==
    << <<"multi-model-server --start &", e>>, <<"sleep", "40">>,
       <<"curl -X PUT", "localhost:8081/models/squeezenet">>,
       <<"curl -X PUT", "localhost:8081/models/squeezenet">> >>

start_mms_server_cmds(e) ==
    << <<"multi-model-server --start &", e>>, <<"sleep", "40">>,
       <<"curl -X PUT", "localhost:8081/models/squeezenet">> >>

\* start_mms_server, lines 16-25: the server is started in the background,
\* then sleep 40, then curl -X PUT localhost:8081/models/squeezenet?min_worker=1
start_mms_server(b) ==
    /\ prog = "testMMS" /\ pc = b.start
    /\ servers' = servers + 1
    /\ \E r \in {0} \cup CurlErrors :
          /\ Run(start_mms_server_cmds(b.env))
          /\ IF Fails(r) THEN Exit(r) ELSE pc' = b.post /\ status' = status
    /\ UNCHANGED <<prog, exceptScript, env, RETVALAML, MMS_LOG, responses>>

\* lines 41 and 54: curl -X POST .../predictions/squeezenet > ${MMS_LOGn}
MmsPredict(b) ==
    /\ prog = "testMMS" /\ pc = b.post
    /\ Run(<< <<"curl -X POST", "127.0.0.1:8080/predictions/squeezenet">> >>)
    /\ \E r \in {0} \cup CurlErrors :
          IF r = 0
          THEN \E body \in Responses :
                  /\ MMS_LOG' = (b.log :> body) @@ MMS_LOG
                  /\ responses' = Append(responses, body)
                  /\ pc' = b.grep /\ status' = status
          ELSE /\ MMS_LOG' = (b.log :> <<>>) @@ MMS_LOG
               /\ responses' = responses
               /\ IF Fails(r) THEN Exit(r) ELSE pc' = b.grep /\ status' = status
    /\ UNCHANGED <<prog, exceptScript, servers, env, RETVALAML>>

\* lines 42-43 and 55-56: cat ${MMS_LOGn} | grep "Egyptian cat"; RETVALAML=$?
MmsGrep(b) ==
    /\ prog = "testMMS" /\ pc = b.grep
    /\ LET r == Grep(MMS_LOG[b.log], "Egyptian cat") IN
          /\ Run(<< <<"grep", "Egyptian cat">> >>)
          /\ IF Fails(r)
             THEN Exit(r) /\ RETVALAML' = RETVALAML
             ELSE RETVALAML' = r /\ pc' = b.stop /\ status' = status
    /\ UNCHANGED <<prog, exceptScript, servers, env, MMS_LOG, responses>>

\* stop_mms_server, lines 27-31 (called on lines 44 and 57)
stop_mms_server(b) ==
    /\ prog = "testMMS" /\ pc = b.stop
    /\ \E r \in {0, 1} :
          /\ servers' = IF r = 0 THEN servers - 1 ELSE servers
          /\ IF Fails(r)
             THEN Run(<< <<"multi-model-server --stop", "failed">> >>) /\ Exit(r)
             ELSE /\ Run(<< <<"multi-model-server --stop", "">>, <<"sleep", "10">> >>)
                  /\ pc' = b.check /\ status' = status
    /\ UNCHANGED <<prog, exceptScript, env, RETVALAML, MMS_LOG, responses>>

\* lines 45-48 and 58-61: if [[ $RETVALAML -ne 0 ]]; then exit 1; fi;
\* source deactivate
MmsCheck(b) ==
    /\ prog = "testMMS" /\ pc = b.check
    /\ IF RETVALAML # 0
       THEN Exit(1) /\ UNCHANGED <<trace, env>>
       ELSE /\ Run(<< <<"source deactivate", b.env>> >>)
            /\ env' = "base"
            /\ pc' = b.next /\ status' = status
    /\ UNCHANGED <<prog, exceptScript, servers, RETVALAML, MMS_LOG, responses>>

\* lines 63-71: rm -rf the files; exit 0
MmsCleanup ==
    /\ prog = "testMMS" /\ pc = "L64"
    /\ MMS_LOG' = <<>>
    /\ Run(<< <<"rm -rf", "">> >>)
    /\ Exit(0)
    /\ UNCHANGED <<prog, exceptScript, servers, env, RETVALAML, responses>>

(***************************************************************************)
(* The TorchServe test script (unnamed/part_001)                           *)
(***************************************************************************)
\* lines 12-20: source activate; wget; torch-model-archiver; curl -O
TsSetup ==
    /\ prog = "testTorchServe" /\ pc = "L12"
    /\ \E e \in {"pytorch_latest_p36", "pytorch_latest_p37"} :
          /\ env' = e
          /\ Run(<< <<"source activate", e>>, <<"torch-model-archiver", "">>,
                    <<"curl -O", "kitten.jpg">> >>)
    /\ pc' = "L21"
    /\ UNCHANGED <<prog, exceptScript, status, servers, RETVALAML, MMS_LOG, responses>>

\* lines 21-22: torchserve --start ... &; sleep 100
TsStart ==
    /\ prog = "testTorchServe" /\ pc = "L21"
    /\ servers' = servers + 1
    /\ Run(<< <<"torchserve --start &", env>>, <<"sleep", "100">> >>)
    /\ pc' = "L23"
    /\ UNCHANGED <<prog, exceptScript, status, env, RETVALAML, MMS_LOG, responses>>

\* line 23: curl http://127.0.0.1:8080/predictions/densenet161 -T kitten.jpg || exit 1
TsRequest ==
    /\ prog = "testTorchServe" /\ pc = "L23"
    /\ Run(<< <<"curl -T", "127.0.0.1:8080/predictions/densenet161">> >>)
    /\ \E r \in {0} \cup CurlErrors :
          IF r # 0 THEN Exit(1) ELSE pc' = "L24" /\ status' = status
    /\ UNCHANGED <<prog, exceptScript, servers, env, RETVALAML, MMS_LOG, responses>>

\* lines 24-25: torchserve --stop; source deactivate (the end of the script)
TsStop ==
    /\ prog = "testTorchServe" /\ pc = "L24"
    /\ \E r \in {0, 1} :
          /\ servers' = IF r = 0 THEN servers - 1 ELSE servers
          /\ Run(<< <<"torchserve --stop", IF r = 0 THEN "" ELSE "failed">>,
                    <<"source deactivate", env>> >>)
    /\ env' = "base"
    /\ Exit(0)
    /\ UNCHANGED <<prog, exceptScript, RETVALAML, MMS_LOG, responses>>

(***************************************************************************)
(* The TensorFlow Serving test script (unnamed/part_002)                   *)
(***************************************************************************)
\* lines 19-25: source activate; python .../mnist_saved_model.py models/mnist || exit 1
TfExport ==
    /\ prog = "testTFServing" /\ pc = "L19"
    /\ \E e \in {"tensorflow_p36", "tensorflow_p37"}, r \in {0, 1} :
          /\ env' = e
          /\ Run(<< <<"source activate", e>>, <<"mnist_saved_model.py", "models/mnist">> >>)
          /\ results' = Append(results, r)
          /\ IF r # 0 THEN Exit(1) ELSE pc' = "L27" /\ status' = status
    /\ UNCHANGED <<prog, exceptTest, servers, RETVALAML, MMS_LOG, responses>>

\* lines 27-28: tensorflow_model_server --port=9000 ... &; SERVER_PID=$!
TfStart ==
    /\ prog = "testTFServing" /\ pc = "L27"
    /\ servers' = servers + 1
    /\ Run(<< <<"tensorflow_model_server &", "9000">> >>)
    /\ pc' = "L30"
    /\ UNCHANGED <<prog, exceptScript, status, env, RETVALAML, MMS_LOG, responses>>

\* line 30: python .../mnist_client.py --num_tests=1000 --server=127.0.0.1:9000 || exit 1
TfClient ==
    /\ prog = "testTFServing" /\ pc = "L30"
    /\ Run(<< <<"mnist_client.py", "127.0.0.1:9000">> >>)
    /\ \E r \in {0, 1} :
          /\ results' = Append(results, r)
          /\ IF r # 0 THEN Exit(1) ELSE pc' = "L32" /\ status' = status
    /\ UNCHANGED <<prog, exceptTest, servers, env, RETVALAML, MMS_LOG, responses>>

\* lines 32-36: kill -9 $SERVER_PID; conda deactivate; rm -rf models; exit 0
TfKill ==
    /\ prog = "testTFServing" /\ pc = "L32"
    /\ servers' = servers - 1
    /\ Run(<< <<"kill -9", "SERVER_PID">>, <<"conda deactivate", env>>,
              <<"rm -rf", "models">> >>)
    /\ env' = "base"
    /\ Exit(0)
    /\ UNCHANGED <<prog, exceptScript, RETVALAML, MMS_LOG, responses>>

(***************************************************************************)
(* The MXNet test script (README.md, lines 43-62) and the PyTorch MNIST    *)
(* test script (aws-dl-ami/src/bin/testMMS, lines 73-98).  Neither sets    *)
(* -e: only the test steps, which end in || exit 1, can end the script     *)
(* early.                                                                  *)
(***************************************************************************)
\* line 52: git clone -b v1.4.x .../incubator-mxnet.git ${MXNET_REPO_DIR}
MxClone ==
    /\ prog = "testMXNet" /\ pc = "L52"
    /\ Run(<< <<"git clone", "incubator-mxnet">> >>)
    /\ pc' = "L54"
    /\ UNCHANGED <<prog, exceptScript, status, servers, env, RETVALAML, MMS_LOG, responses>>

\* lines 54-56: source activate mxnet_p36; testMXNetHelper python || exit 1;
\* conda deactivate
MxTestP36Continue ==
    /\ prog = "testMXNet" /\ pc = "L54"
    /\ \E r \in {0, 1} :
          /\ results' = Append(results, r)
          /\ Run(<< <<"source activate", "mxnet_p36">>, <<"testMXNetHelper", "python">>,
                    <<"conda deactivate", "mxnet_p36">> >>)
          /\ env' = "base" /\ pc' = "L58" /\ status' = status
    /\ UNCHANGED <<prog, exceptTest, servers, RETVALAML, MMS_LOG, responses>>

MxTestP36 ==
    /\ prog = "testMXNet" /\ pc = "L54"
    /\ \E r \in {0, 1} :
          /\ results' = Append(results, r)
          /\ IF r # 0
             THEN /\ Run(<< <<"source activate", "mxnet_p36">>, <<"testMXNetHelper", "python">> >>)
                  /\ env' = "mxnet_p36"
                  /\ Exit(1)
             ELSE /\ Run(<< <<"source activate", "mxnet_p36">>, <<"testMXNetHelper", "python">>,
                            <<"conda deactivate", "mxnet_p36">> >>)
                  /\ env' = "base" /\ pc' = "L58" /\ status' = status
    /\ UNCHANGED <<prog, exceptTest, servers, RETVALAML, MMS_LOG, responses>>

\* lines 58-62: source activate mxnet_latest_p37; testMXNetHelper python || exit 1;
\* source deactivate; exit 0
MxTestLatestP37 ==
    /\ prog = "testMXNet" /\ pc = "L58"
    /\ \E r \in {0, 1} :
          /\ results' = Append(results, r)
          /\ IF r # 0
             THEN /\ Run(<< <<"source activate", "mxnet_latest_p37">>,
                            <<"testMXNetHelper", "python">> >>)
                  /\ env' = "mxnet_latest_p37"
                  /\ Exit(1)
             ELSE /\ Run(<< <<"source activate", "mxnet_latest_p37">>,
                            <<"testMXNetHelper", "python">>,
                            <<"source deactivate", "mxnet_latest_p37">> >>)
                  /\ env' = "base"
                  /\ Exit(0)
    /\ UNCHANGED <<prog, exceptTest, servers, RETVALAML, MMS_LOG, responses>>

\* lines 81-86: cd ~/src; git clone .../examples.git pytorch_examples;
\* git checkout 0.4; cd mnist
PtClone ==
    /\ prog = "testPyTorch" /\ pc = "L81"
    /\ Run(<< <<"git clone", "pytorch_examples">>, <<"git checkout", "0.4">> >>)
    /\ pc' = "L88"
    /\ UNCHANGED <<prog, exceptScript, status, servers, env, RETVALAML, MMS_LOG, responses>>

\* lines 88-90: source activate pytorch_p36; python main.py || exit 1;
\* source deactivate
PtTestP36 ==
    /\ prog = "testPyTorch" /\ pc = "L88"
    /\ \E r \in {0, 1} :
          /\ results' = Append(results, r)
          /\ IF r # 0
             THEN /\ Run(<< <<"source activate", "pytorch_p36">>, <<"python", "main.py">> >>)
                  /\ env' = "pytorch_p36"
                  /\ Exit(1)
             ELSE /\ Run(<< <<"source activate", "pytorch_p36">>, <<"python", "main.py">>,
                            <<"source deactivate", "pytorch_p36">> >>)
                  /\ env' = "base" /\ pc' = "L92" /\ status' = status
    /\ UNCHANGED <<prog, exceptTest, servers, RETVALAML, MMS_LOG, responses>>

\* lines 92-98: source activate pytorch_latest_p36 or pytorch_latest_p37;
\* python main.py || exit 1; source deactivate, the last command of the
\* script, whose status is the script's
PtTestLatest ==
    /\ prog = "testPyTorch" /\ pc = "L92"
    /\ \E e \in {"pytorch_latest_p36", "pytorch_latest_p37"}, r \in {0, 1} :
          /\ results' = Append(results, r)
          /\ IF r # 0
             THEN /\ Run(<< <<"source activate", e>>, <<"python", "main.py">> >>)
                  /\ env' = e
                  /\ Exit(1)
             ELSE /\ Run(<< <<"source activate", e>>, <<"python", "main.py">>,
                            <<"source deactivate", e>> >>)
                  /\ env' = "base"
                  /\ pc' = "end"
                  /\ status' \in {0, 1}
    /\ UNCHANGED <<prog, exceptTest, servers, RETVALAML, MMS_LOG, responses>>

(***************************************************************************)
(* The Elasticsearch / Kibana container (unnamed/part_000, a Dockerfile),  *)
(* and docker run as the lab's README starts it.  A path is the sequence   *)
(* of its components; fs maps the path of a file to its lines, its         *)
(* executable bit and its owner.                                           *)
(***************************************************************************)
Range(s) == {s[i] : i \in DOMAIN s}

IsPrefix(s, t) == Len(s) <= Len(t) /\ \A i \in 1 .. Len(s) : s[i] = t[i]

Rel(parts) == [abs |-> FALSE, parts |-> parts]

\* the file a path names in a shell whose working directory is cwd
Resolve(cwd, p) == IF p.abs THEN p.parts ELSE cwd \o p.parts

\* echo LINE >> FILE
EchoAppend(f, cwd, p, user, line) ==
    LET path == Resolve(cwd, p) IN
    IF path \in DOMAIN f
    THEN [f EXCEPT ![path].lines = Append(@, line)]
    ELSE (path :> [lines |-> <<line>>, exec |-> FALSE, owner |-> user]) @@ f

\* chmod a+x FILE
ChmodAX(f, cwd, p) == [f EXCEPT ![Resolve(cwd, p)].exec = TRUE]

\* chown [-R] USER FILE: the file and everything below it
Chown(f, cwd, p, user) ==
    [path \in DOMAIN f |->
        IF IsPrefix(Resolve(cwd, p), path) THEN [f[path] EXCEPT !.owner = user]
        ELSE f[path]]

\* wget; tar zxf; rm; mv: the tarball unpacked as directory name under cwd
Untar(f, cwd, name, user) ==
    (Resolve(cwd, Rel(<<name, "bin", name>>))
        :> [lines |-> <<>>, exec |-> TRUE, owner |-> user])
    @@ (Resolve(cwd, Rel(<<name, "config", name>>))
        :> [lines |-> <<>>, exec |-> FALSE, owner |-> user])
    @@ f

\* a line of a shell script: the command and its arguments
Cmd(exe, args) == [exe |-> exe, args |-> args]

\* the three lines written to entrypoint.sh, lines 31-33
EntrypointLinesNoDaemon ==
    << Cmd(<<"#!/bin/bash">>, <<>>),
       Cmd(<<"opt", "elasticsearch", "bin", "elasticsearch">>, <<>>),
       Cmd(<<"opt", "kibana", "bin", "kibana">>, <<"-H", "0.0.0.0", "-p", "5601">>) >>

EntrypointLines ==
    << Cmd(<<"#!/bin/bash">>, <<>>),
       Cmd(<<"opt", "elasticsearch", "bin", "elasticsearch">>, <<"-d">>),
       Cmd(<<"opt", "kibana", "bin", "kibana">>, <<"-H", "0.0.0.0", "-p", "5601">>) >>

\* lines 15-35 when every command of the && chain succeeds
InstallLayer(f) ==
    LET cwd == <<"opt">>
        f1 == Untar(f, cwd, "elasticsearch", "root")
        yml == Rel(<<"elasticsearch", "config", "elasticsearch">>)
        f2 == EchoAppend(f1, cwd, yml, "root", Cmd(<<"transport.host:">>, <<"127.0.0.1">>))
        f3 == EchoAppend(f2, cwd, yml, "root", Cmd(<<"http.host:">>, <<"0.0.0.0">>))
        f4 == Chown(f3, cwd, Rel(<<"elasticsearch">>), "elasticsearch")
        f5 == Untar(f4, cwd, "kibana", "root")
        f6 == Chown(f5, cwd, Rel(<<"kibana">>), "elasticsearch")
        sh == Rel(<<"entrypoint.sh">>)
        f7 == EchoAppend(f6, cwd, sh, "root", EntrypointLines[1])
        f8 == EchoAppend(f7, cwd, sh, "root", EntrypointLines[2])
        f9 == EchoAppend(f8, cwd, sh, "root", EntrypointLines[3])
        f10 == ChmodAX(f9, cwd, sh)
    IN  Chown(f10, cwd, sh, "elasticsearch")

\* lines 7-14: apt-get install wget; groupadd / useradd elasticsearch; mkdir /opt
DkPrepare ==
    /\ prog = "docker" /\ pc = "L7"
    /\ \E ok \in BOOLEAN :
          IF ok
          THEN /\ image' = [image EXCEPT !.users = @ \cup {"elasticsearch"}]
               /\ pc' = "L15" /\ status' = status
          ELSE Exit(1) /\ image' = image
    /\ UNCHANGED <<prog, exceptDocker, fs, procs, ip>>

\* lines 15-35: one RUN; its layer is kept only if the whole && chain succeeds
DkInstall ==
    /\ prog = "docker" /\ pc = "L15"
    /\ \E failed \in {"", "wget elasticsearch", "wget kibana"} :
          IF failed = ""
          THEN fs' = InstallLayer(fs) /\ pc' = "L37" /\ status' = status
          ELSE Exit(1) /\ fs' = fs
    /\ UNCHANGED <<prog, exceptDocker, image, procs, ip>>

\* lines 37-43: USER elasticsearch; EXPOSE 9200 5601; ENTRYPOINT ["/opt/entrypoint.sh"]
DkConfig ==
    /\ prog = "docker" /\ pc = "L37"
    /\ image' = [image EXCEPT !.user = "elasticsearch",
                              !.expose = {9200, 5601},
                              !.entrypoint = <<"opt", "entrypoint.sh">>]
    /\ pc' = "built"
    /\ UNCHANGED <<prog, exceptDocker, status, fs, procs, ip>>

\* docker run (README, lines 64-70): the entrypoint is executed as the image's
\* user; 127 when the file is missing, 126 when it is not executable
DockerRun ==
    /\ prog = "docker" /\ pc = "built"
    /\ \E mode \in {"-d", "--rm"} :
          IF image.entrypoint \notin DOMAIN fs THEN Exit(127) /\ ip' = ip
          ELSE IF ~fs[image.entrypoint].exec THEN Exit(126) /\ ip' = ip
          ELSE pc' = "entrypoint" /\ ip' = 1 /\ status' = status
    /\ UNCHANGED <<prog, exceptDocker, fs, image, procs>>

\* elasticsearch -d forks a daemon and returns; any other command keeps the
\* script waiting in the foreground
Daemonizes(line) ==
    line.exe = <<"opt", "elasticsearch", "bin", "elasticsearch">> /\ "-d" \in Range(line.args)

\* bash runs the next line of the entrypoint script (there is no set -e)
EntrypointStep ==
    /\ prog = "docker" /\ pc = "entrypoint"
    /\ LET script == fs[image.entrypoint].lines IN
          IF ip > Len(script) THEN Exit(0) /\ UNCHANGED <<procs, ip>>
          ELSE LET line == script[ip] IN
               IF line.exe = <<"#!/bin/bash">> \/ line.exe \notin DOMAIN fs
               THEN ip' = ip + 1 /\ UNCHANGED <<procs, pc, status>>
               ELSE /\ procs' = Append(procs, [exe |-> line.exe, args |-> line.args,
                                               user |-> image.user])
                    /\ IF Daemonizes(line)
                       THEN ip' = ip + 1 /\ UNCHANGED <<pc, status>>
                       ELSE pc' = "foreground" /\ UNCHANGED <<ip, status>>
    /\ UNCHANGED <<prog, exceptDocker, fs, image>>

(***************************************************************************)
(* The transformer tutorial's epoch loop (unnamed/part_004, lines          *)
(* 1848-1866 and 1941).  model is the value of the parameters of the one   *)
(* model object: the number of optimizer updates applied to it, so that    *)
(* parameters at different times are different values.  best_model is a    *)
(* Python reference: None, or the model object itself.                     *)
(***************************************************************************)
\* float("inf"): above every loss evaluate() returns
Inf == MaxLoss + 1

Losses == 1 .. MaxLoss

\* the parameters an object reference denotes when it is used
Deref(ref) == model

\* line 1854: train(), one pass over train_data, updates the parameters
TrTrain ==
    /\ prog = "transformer" /\ pc = "L1854"
    /\ model' = model + 1
    /\ pc' = "L1855"
    /\ UNCHANGED <<prog, exceptTrain, epoch, scheduler, history, best_model,
                   best_val_loss, val_loss, test_params, tmVars>>

\* line 1855: val_loss = evaluate(model, val_data)
TrEvaluate ==
    /\ prog = "transformer" /\ pc = "L1855"
    /\ val_loss' \in Losses
    /\ pc' = "L1862"
    /\ UNCHANGED <<prog, exceptTrain, model, epoch, scheduler, history, best_model,
                   best_val_loss, test_params, tmVars>>

TrSaveAlways ==
    /\ prog = "transformer" /\ pc = "L1862"
    /\ best_val_loss' = val_loss /\ best_model' = "model"
    /\ history' = Append(history, [score |-> val_loss, params |-> model])
    /\ pc' = "L1866"
    /\ UNCHANGED <<prog, exceptTrain, model, epoch, scheduler, val_loss,
                   test_params, tmVars>>

\* lines 1862-1864: if val_loss < best_val_loss: best_val_loss = val_loss;
\* best_model = model
TrSave ==
    /\ prog = "transformer" /\ pc = "L1862"
    /\ IF val_loss < best_val_loss
       THEN best_val_loss' = val_loss /\ best_model' = "model"
       ELSE UNCHANGED <<best_val_loss, best_model>>
    /\ history' = Append(history, [score |-> val_loss, params |-> model])
    /\ pc' = "L1866"
    /\ UNCHANGED <<prog, exceptTrain, model, epoch, scheduler, val_loss,
                   test_params, tmVars>>

\* line 1866: scheduler.step(), and the loop header of line 1852
TrSchedule ==
    /\ prog = "transformer" /\ pc = "L1866"
    /\ scheduler' = scheduler + 1
    /\ IF epoch < epochs
       THEN epoch' = epoch + 1 /\ pc' = "L1854"
       ELSE epoch' = epoch /\ pc' = "L1941"
    /\ UNCHANGED <<prog, exceptTrain, model, history, best_model, best_val_loss,
                   val_loss, test_params, tmVars>>

\* line 1941: test_loss = evaluate(best_model, test_data); evaluate(None, ...)
\* raises AttributeError
TrTest ==
    /\ prog = "transformer" /\ pc = "L1941"
    /\ IF best_model = "None"
       THEN pc' = "raised" /\ test_params' = test_params
       ELSE pc' = "done" /\ test_params' = Deref(best_model)
    /\ UNCHANGED <<prog, exceptTrain, model, epoch, scheduler, history, best_model,
                   best_val_loss, val_loss, tmVars>>

(***************************************************************************)
(* train_model of the transfer-learning tutorial (unnamed/part_004, lines  *)
(* 917-983).  An accuracy is the number of correct predictions of the      *)
(* phase: running_corrects, the numerator of epoch_acc, whose denominator  *)
(* dataset_sizes[phase] is the same in every epoch.                        *)
(***************************************************************************)
\* copy.deepcopy(model.state_dict()): the value of the parameters now
DeepCopy(params) == params

\* line 970: epoch_acc > best_acc
BetterOrEqual(epoch_acc, acc) == epoch_acc >= acc

Better(epoch_acc, acc) == epoch_acc > acc

\* lines 928-935: the next phase begins: model.train() / model.eval(),
\* running_corrects = 0
TmBeginPhase ==
    /\ prog = "train_model" /\ pc = "L928"
    /\ running_corrects' = 0
    /\ batch' = 0
    /\ pc' = "L938"
    /\ UNCHANGED <<prog, exceptTrain, model, epoch, scheduler, history, trVars,
                   num_epochs, phase, best_acc, best_model_wts>>

\* lines 938-959: one batch of dataloaders[phase]; backward and optimizer.step()
\* only in the training phase; one sample per batch, predicted right or wrong
TmBatch ==
    /\ prog = "train_model" /\ pc = "L938" /\ batch < NumBatches
    /\ model' = IF phase = "train" THEN model + 1 ELSE model
    /\ \E corrects \in {0, 1} : running_corrects' = running_corrects + corrects
    /\ batch' = batch + 1
    /\ UNCHANGED <<prog, pc, exceptTrain, epoch, scheduler, history, trVars,
                   num_epochs, phase, best_acc, best_model_wts>>

\* scheduler.step() after the last batch of either phase
TmScheduleEveryPhase ==
    /\ prog = "train_model" /\ pc = "L938" /\ batch = NumBatches
    /\ scheduler' = scheduler + 1
    /\ pc' = "L963"
    /\ UNCHANGED <<prog, exceptTrain, model, epoch, history, trVars, num_epochs,
                   phase, batch, running_corrects, best_acc, best_model_wts>>

\* lines 960-961: after the last batch, scheduler.step() if phase == 'train'
TmSchedule ==
    /\ prog = "train_model" /\ pc = "L938" /\ batch = NumBatches
    /\ scheduler' = IF phase = "train" THEN scheduler + 1 ELSE scheduler
    /\ pc' = "L963"
    /\ UNCHANGED <<prog, exceptTrain, model, epoch, history, trVars, num_epochs,
                   phase, batch, running_corrects, best_acc, best_model_wts>>

\* lines 963-972: epoch_acc; the deep copy if phase == 'val' and
\* epoch_acc > best_acc; then the next phase, the next epoch or the end
TmEndPhase ==
    /\ prog = "train_model" /\ pc = "L963"
    /\ LET epoch_acc == running_corrects IN
          /\ IF phase = "val" /\ Better(epoch_acc, best_acc)
             THEN best_acc' = epoch_acc /\ best_model_wts' = DeepCopy(model)
             ELSE UNCHANGED <<best_acc, best_model_wts>>
          /\ history' = IF phase = "val"
                        THEN Append(history, [score |-> epoch_acc, params |-> model])
                        ELSE history
    /\ IF phase = "train"
       THEN phase' = "val" /\ pc' = "L928" /\ epoch' = epoch
       ELSE /\ phase' = "train"
            /\ epoch' = epoch + 1
            /\ pc' = IF epoch + 1 < num_epochs THEN "L928" ELSE "L982"
    /\ UNCHANGED <<prog, exceptTrain, model, scheduler, trVars, num_epochs, batch,
                   running_corrects>>

\* lines 976-983: model.load_state_dict(best_model_wts); return model
TmLoad ==
    /\ prog = "train_model" /\ pc = "L982"
    /\ model' = best_model_wts
    /\ pc' = "done"
    /\ UNCHANGED <<prog, exceptTrain, epoch, scheduler, history, trVars, num_epochs,
                   phase, batch, running_corrects, best_acc, best_model_wts>>


(***************************************************************************)
(* The data functions of the transformer tutorial (unnamed/part_004):      *)
(* batchify, get_batch, generate_square_subsequent_mask, and the batch     *)
(* loop of train() that calls them.  A 1-D tensor is a sequence, a 2-D     *)
(* tensor a sequence of rows; Python's indices start at 0, a sequence's    *)
(* at 1.  batchify is called with at least bsz tokens (view(bsz, -1) of    *)
(* an empty tensor is an error in torch).                                  *)
(***************************************************************************)
Min(a, b) == IF a < b THEN a ELSE b

\* tensor.narrow(0, start, length)
Narrow(t, start, length) == SubSeq(t, start + 1, start + length)

\* tensor.view(rows, -1) of a 1-D tensor
View(t, rows) ==
    LET cols == Len(t) \div rows IN
    [r \in 1 .. rows |-> [c \in 1 .. cols |-> t[(r - 1) * cols + c]]]

\* tensor.t() / tensor.transpose(0, 1) of a 2-D tensor with at least one row
Transpose(m) ==
    [c \in 1 .. Len(m[1]) |-> [r \in 1 .. Len(m) |-> m[r][c]]]

\* batchify(data, bsz), lines 1682-1689
batchify_untransposed(d, b) ==
    LET nbatch == Len(d) \div b IN View(Narrow(d, 0, nbatch * b), nbatch)

batchify(d, b) ==
    LET nbatch == Len(d) \div b IN Transpose(View(Narrow(d, 0, nbatch * b), b))

\* source[a:b] for 0 <= a: Python clamps the end of a slice
Slice(s, a, b) == SubSeq(s, a + 1, Min(b, Len(s)))

\* tensor.reshape(-1) of a 2-D tensor: its rows one after the other
Flatten(m) ==
    IF m = <<>> THEN <<>>
    ELSE LET cols == Len(m[1]) IN
         [k \in 1 .. (Len(m) * cols) |->
             m[((k - 1) \div cols) + 1][((k - 1) % cols) + 1]]

\* get_batch(source, i), lines 1726-1730; the record it returns also keeps the
\* i it was called with (-1: not called yet) and the seq_len it computed
get_batch_long(src, at) ==
    LET seq_len == Min(bptt, Len(src) - at) IN
    [i |-> at,
     seq_len |-> seq_len,
     data |-> Slice(src, at, at + seq_len),
     target |-> Flatten(Slice(src, at + 1, at + 1 + seq_len))]

get_batch(src, at) ==
    LET seq_len == Min(bptt, Len(src) - 1 - at) IN
    [i |-> at,
     seq_len |-> seq_len,
     data |-> Slice(src, at, at + seq_len),
     target |-> Flatten(Slice(src, at + 1, at + 1 + seq_len))]

\* torch.ones(sz, sz) and torch.triu
Ones(sz) == [r \in 1 .. sz |-> [c \in 1 .. sz |-> 1]]
Triu(m) == [r \in 1 .. Len(m) |-> [c \in 1 .. Len(m) |-> IF c >= r THEN m[r][c] ELSE 0]]

\* m == v, elementwise
EqualTo(m, v) == [r \in 1 .. Len(m) |-> [c \in 1 .. Len(m[r]) |-> m[r][c] = v]]

\* tensor.float() of a bool tensor
Float(m) ==
    [r \in 1 .. Len(m) |-> [c \in 1 .. Len(m[r]) |-> IF m[r][c] THEN "1.0" ELSE "0.0"]]

\* tensor.masked_fill(where, v)
MaskedFill(m, where, v) ==
    [r \in 1 .. Len(m) |-> [c \in 1 .. Len(m[r]) |-> IF where[r][c] THEN v ELSE m[r][c]]]

\* generate_square_subsequent_mask(sz), lines 1563-1566
generate_untransposed_mask(sz) ==
    LET mask == Float(EqualTo(Triu(Ones(sz)), 1))
        filled == MaskedFill(mask, EqualTo(mask, "0.0"), "-inf")
    IN  MaskedFill(filled, EqualTo(filled, "1.0"), "0.0")

generate_square_subsequent_mask(sz) ==
    LET mask == Float(Transpose(EqualTo(Triu(Ones(sz)), 1)))
        filled == MaskedFill(mask, EqualTo(mask, "0.0"), "-inf")
    IN  MaskedFill(filled, EqualTo(filled, "1.0"), "0.0")

\* line 1693: train_data = batchify(train_data, batch_size)
LmBatchify ==
    /\ prog = "lm_data" /\ pc = "L1693"
    /\ source' = batchify(data, bsz)
    /\ pc' = "L1795"
    /\ UNCHANGED <<prog, exceptLm, data, bsz, bptt, lm_i, got, src_mask>>

\* line 1795 of train(): src_mask = model.generate_square_subsequent_mask(bptt),
\* and the header of the batch loop, range(0, train_data.size(0) - 1, bptt)
LmMask ==
    /\ prog = "lm_data" /\ pc = "L1795"
    /\ src_mask' = generate_square_subsequent_mask(bptt)
    /\ lm_i' = 0
    /\ pc' = IF 0 < Len(source) - 1 THEN "L1797" ELSE "done"
    /\ UNCHANGED <<prog, exceptLm, data, bsz, bptt, source, got>>

\* lines 1797-1800 of train(): data, targets = get_batch(train_data, i); a new
\* mask if data.size(0) != bptt; then the next i of the range
LmBatch ==
    /\ prog = "lm_data" /\ pc = "L1797"
    /\ got' = get_batch(source, lm_i)
    /\ src_mask' = IF Len(got'.data) # bptt
                   THEN generate_square_subsequent_mask(Len(got'.data))
                   ELSE src_mask
    /\ IF lm_i + bptt < Len(source) - 1
       THEN lm_i' = lm_i + bptt /\ pc' = pc
       ELSE lm_i' = lm_i /\ pc' = "done"
    /\ UNCHANGED <<prog, exceptLm, data, bsz, bptt, source>>

(***************************************************************************)
(* The char-RNN tutorial (unnamed/part_004): predict(input_line) turns its *)
(* argument into a tensor with lineToTensor, and the training loop keeps   *)
(* the averages of the losses.  A string is a sequence of characters; a    *)
(* tensor of shape <line_length x 1 x n_letters> is a sequence of          *)
(* sequences of rows.                                                      *)
(***************************************************************************)
\* line 2087: all_letters = string.ascii_letters + " .,;'"
all_letters ==
    << "a", "b", "c", "d", "e", "f", "g", "h", "i", "j", "k", "l", "m",
       "n", "o", "p", "q", "r", "s", "t", "u", "v", "w", "x", "y", "z",
       "A", "B", "C", "D", "E", "F", "G", "H", "I", "J", "K", "L", "M",
       "N", "O", "P", "Q", "R", "S", "T", "U", "V", "W", "X", "Y", "Z",
       " ", ".", ",", ";", "'" >>

\* line 2088
n_letters == Len(all_letters)

\* characters a user can type: some of all_letters and some that are not
InputChars == {"a", "J", "s", "'", "1", "-"}

\* lines predict() can be given
Lines == UNION {[1 .. n -> InputChars] : n \in 0 .. MaxLine}

\* str.find: the lowest index (from 0) where the character is, -1 if nowhere
Find(s, c) ==
    IF \E k \in DOMAIN s : s[k] = c
    THEN (CHOOSE k \in DOMAIN s : s[k] = c /\ \A j \in DOMAIN s : s[j] = c => k <= j) - 1
    ELSE -1

\* lines 2182-2183: letterToIndex
letterToIndex(letter) == Find(all_letters, letter)

\* the position (from 1) of index idx of a Python sequence of length n: a
\* negative index counts from the end
PyIndex(n, idx) == IF idx < 0 THEN n + idx + 1 ELSE idx + 1

\* torch.zeros(rows, 1, cols)
Zeros(rows, cols) == [r \in 1 .. rows |-> <<[c \in 1 .. cols |-> 0]>>]

\* lines 2677 and 2194: predict calls lineToTensor(input_line), which begins
\* with tensor = torch.zeros(len(line), 1, n_letters)
PredictZeros ==
    /\ prog = "predict" /\ pc = "L2194"
    /\ tensor' = Zeros(Len(input_line), n_letters)
    /\ li' = 0
    /\ pc' = IF Len(input_line) > 0 THEN "L2196" ELSE "done"
    /\ UNCHANGED <<prog, exceptPredict, input_line>>

\* lines 2195-2196: tensor[li][0][letterToIndex(letter)] = 1 for the next letter
PredictSet ==
    /\ prog = "predict" /\ pc = "L2196"
    /\ tensor' = [tensor EXCEPT ![li + 1][1][PyIndex(n_letters, letterToIndex(input_line[li + 1]))] = 1]
    /\ li' = li + 1
    /\ pc' = IF li + 1 < Len(input_line) THEN pc ELSE "done"
    /\ UNCHANGED <<prog, exceptPredict, input_line>>

\* lines 2518-2532, one iteration of the training loop: loss is what train()
\* returns; current_loss += loss; every plot_every iterations the average is
\* appended and current_loss reset (the print of lines 2524-2527 changes nothing)
RnnIterationNoReset ==
    /\ prog = "rnn_train" /\ pc = "L2519"
    /\ \E loss \in Losses :
          /\ losses' = Append(losses, loss)
          /\ IF iter % plot_every = 0
             THEN /\ all_losses' = Append(all_losses, <<current_loss + loss, plot_every>>)
                  /\ current_loss' = current_loss + loss
             ELSE /\ all_losses' = all_losses
                  /\ current_loss' = current_loss + loss
    /\ IF iter < n_iters
       THEN iter' = iter + 1 /\ pc' = pc
       ELSE iter' = iter /\ pc' = "done"
    /\ UNCHANGED <<prog, exceptRnn, n_iters, plot_every>>

RnnIteration ==
    /\ prog = "rnn_train" /\ pc = "L2519"
    /\ \E loss \in Losses :
          /\ losses' = Append(losses, loss)
          /\ IF iter % plot_every = 0
             THEN /\ all_losses' = Append(all_losses, <<current_loss + loss, plot_every>>)
                  /\ current_loss' = 0
             ELSE /\ all_losses' = all_losses
                  /\ current_loss' = current_loss + loss
    /\ IF iter < n_iters
       THEN iter' = iter + 1 /\ pc' = pc
       ELSE iter' = iter /\ pc' = "done"
    /\ UNCHANGED <<prog, exceptRnn, n_iters, plot_every>>

Init ==
    /\ prog \in Programs
    /\ IF prog = "lm_data"
       THEN /\ \E n \in 1 .. MaxData : data = [k \in 1 .. n |-> k]
            /\ bsz \in 1 .. MaxBsz
            /\ bsz <= Len(data)
            /\ bptt \in 1 .. MaxBptt
       ELSE data = <<>> /\ bsz = 0 /\ bptt = 0
    /\ source = <<>>
    /\ lm_i = 0
    /\ input_line \in IF prog = "predict" THEN Lines ELSE {<<>>}
    /\ tensor = <<>>
    /\ li = 0
    /\ n_iters \in IF prog = "rnn_train" THEN 0 .. MaxIters ELSE {0}
    /\ plot_every \in IF prog = "rnn_train" THEN 1 .. MaxPlotEvery ELSE {1}
    /\ iter = 1
    /\ current_loss = 0
    /\ all_losses = <<>>
    /\ losses = <<>>
    /\ results = <<>>
    /\ errors = <<>>
    /\ got = [i |-> -1, seq_len |-> 0, data |-> <<>>, target |-> <<>>]
    /\ src_mask = <<>>
    /\ num_epochs \in IF prog = "train_model" THEN 0 .. MaxEpochs ELSE {0}
    /\ calls = <<>>
    /\ es = <<>>
    /\ pc = CASE prog = "testMMS" -> "L34"
              [] prog = "testTorchServe" -> "L12"
              [] prog = "testTFServing" -> "L19"
              [] prog = "docker" -> "L7"
              [] prog = "transformer" -> "L1854"
              [] prog = "lm_data" -> "L1693"
              [] prog = "predict" -> "L2194"
              [] prog = "testMXNet" -> "L52"
              [] prog = "testPyTorch" -> "L81"
              [] prog = "rnn_train" -> IF n_iters >= 1 THEN "L2519" ELSE "done"
              [] prog = "train_model" -> IF num_epochs > 0 THEN "L928" ELSE "L982"
              [] OTHER -> "none"
    /\ status = -1
    /\ trace = <<>>
    /\ servers = 0
    /\ env = "base"
    /\ RETVALAML = -1
    /\ MMS_LOG = <<>>
    /\ responses = <<>>
    /\ fs = <<>>
    /\ image = [users |-> {"root"}, user |-> "root", expose |-> {}, entrypoint |-> <<>>]
    /\ procs = <<>>
    /\ ip = 0
    /\ model = 0
    /\ epoch = IF prog = "transformer" THEN 1 ELSE 0
    /\ scheduler = 0
    /\ history = <<>>
    /\ best_model = "None"
    /\ best_val_loss = Inf
    /\ val_loss = 0
    /\ test_params = -1
    /\ phase = "train"
    /\ batch = 0
    /\ running_corrects = 0
    /\ best_acc = 0
    /\ best_model_wts = DeepCopy(model)

Next ==
    \/ on_data
    \/ on_error
    \/ MmsDownload
    \/ \E b \in MmsBlocks : MmsActivate(b)
    \/ \E b \in MmsBlocks : start_mms_server(b)
    \/ \E b \in MmsBlocks : MmsPredict(b)
    \/ \E b \in MmsBlocks : MmsGrep(b)
    \/ \E b \in MmsBlocks : stop_mms_server(b)
    \/ \E b \in MmsBlocks : MmsCheck(b)
    \/ MmsCleanup
    \/ TsSetup
    \/ TsStart
    \/ TsRequest
    \/ TsStop
    \/ TfExport
    \/ TfStart
    \/ TfClient
    \/ TfKill
    \/ DkPrepare
    \/ DkInstall
    \/ DkConfig
    \/ DockerRun
    \/ EntrypointStep
    \/ TrTrain
    \/ TrEvaluate
    \/ TrSave
    \/ TrSchedule
    \/ TrTest
    \/ TmBeginPhase
    \/ TmBatch
    \/ TmSchedule
    \/ TmEndPhase
    \/ TmLoad
    \/ LmBatchify
    \/ LmMask
    \/ LmBatch
    \/ PredictZeros
    \/ PredictSet
    \/ RnnIteration
    \/ MxClone
    \/ MxTestP36
    \/ MxTestLatestP37
    \/ PtClone
    \/ PtTestP36
    \/ PtTestLatest

Spec == Init /\ [][Next]_vars

(***************************************************************************)
(* Properties                                                              *)
(***************************************************************************)
Count(s, Test(_)) == Len(SelectSeq(s, Test))

IsTweetCall(c) == HasKey(c.data, "text")

\* C1: every indexed document carries exactly one of the three labels, and it
\* is "negative" when the polarity is below zero, "neutral" when it is zero
\* and "positive" when it is above zero.
C1_SentimentThreshold ==
    \A i \in DOMAIN es :
        LET b == es[i].body IN
        /\ b.polarity \in Polarities
        /\ b.sentiment \in {"negative", "neutral", "positive"}
        /\ b.polarity < 0 => b.sentiment = "negative"
        /\ b.polarity = 0 => b.sentiment = "neutral"
        /\ b.polarity > 0 => b.sentiment = "positive"

C1_Witness ==
    /\ Len(es) = 2
    /\ es[1].body.polarity = 0 /\ es[1].body.sentiment = "neutral"
    /\ es[2].body.polarity = 0 - PolScale /\ es[2].body.sentiment = "negative"

\* C2: the on_data calls on tweets and the es.index calls correspond one to
\* one, in order; each call goes to the index "sentiment" and its body holds
\* the tweet's screen name, date and text unchanged, and a label that agrees
\* with the sign of the polarity of the same body.
C2_OneIndexCallPerTweet ==
    LET tweets == SelectSeq(calls, IsTweetCall) IN
    /\ Len(es) = Len(tweets)
    /\ \A i \in DOMAIN es :
          LET b == es[i].body
              d == tweets[i].data IN
          /\ es[i].index = "sentiment"
          /\ b.author = d.user.screen_name
          /\ b.date = d.created_at
          /\ b.message = d.text
          /\ (b.sentiment = "negative") <=> (b.polarity < 0)
          /\ (b.sentiment = "neutral") <=> (b.polarity = 0)
          /\ (b.sentiment = "positive") <=> (b.polarity > 0)

C2_Witness ==
    /\ Len(calls) = 2 /\ Len(es) = 1
    /\ ~IsTweetCall(calls[1]) /\ IsTweetCall(calls[2])
    /\ es[1].body.author = "bob" /\ es[1].body.message = "good"
    /\ es[1].body.polarity > 0

Contains(body, s) == s \in Range(body)

Activations == SelectSeq(trace, LAMBDA e : e[1] = "source activate")

\* C3: testMMS ends with status 0 only after both environments, mxnet_p36 and
\* then mxnet_latest_p37, were tested and both prediction responses contained
\* "Egyptian cat"; once it has ended after a response without it, its status
\* is not 0.
C3_ExitZeroOnlyIfBothMatch ==
    prog = "testMMS" =>
        /\ status = 0 =>
              /\ Len(responses) = 2
              /\ \A i \in DOMAIN responses : Contains(responses[i], "Egyptian cat")
              /\ Len(Activations) = 2
              /\ Activations[1][2] = "mxnet_p36"
              /\ Activations[2][2] = "mxnet_latest_p37"
        /\ (Exited /\ \E i \in DOMAIN responses : ~Contains(responses[i], "Egyptian cat"))
              => status # 0

C3_Witness ==
    /\ prog = "testMMS" /\ Exited /\ status # 0
    /\ Len(responses) = 2
    /\ Contains(responses[1], "Egyptian cat")
    /\ ~Contains(responses[2], "Egyptian cat")

LastResponseLacks(s) ==
    responses # <<>> /\ ~Contains(responses[Len(responses)], s)

\* C4: when testMMS has ended after a prediction response without "Egyptian
\* cat", the failed grep's status was kept in RETVALAML, stop_mms_server was
\* run for every server started, and the exit status is 1.
C4_StopBeforeExitOnFailedGrep ==
    (prog = "testMMS" /\ Exited /\ LastResponseLacks("Egyptian cat")) =>
        /\ RETVALAML = 1
        /\ Count(trace, IsStop) = Count(trace, IsStart)
        /\ servers = 0
        /\ status = 1

\* C5: when the TorchServe or the TensorFlow Serving script has ended after
\* starting its server, it has executed the command that stops the server.
C5_StopOnEveryPath ==
    (prog \in {"testTorchServe", "testTFServing"} /\ Exited /\ Count(trace, IsStart) > 0)
        => Count(trace, IsStop) = Count(trace, IsStart)

\* between a server start and any later request there is a sleep
SleepBeforeRequest ==
    \A i, j \in DOMAIN trace :
        (i < j /\ IsStart(trace[i]) /\ IsRequest(trace[j]))
            => \E k \in (i + 1) .. (j - 1) : IsSleep(trace[k])

\* C6 as stated: in testMMS, the TorchServe script and the TensorFlow Serving
\* script a sleep lies between the start of a server and the first request.
C6_SleepInEveryScript ==
    prog \in {"testMMS", "testTorchServe", "testTFServing"} => SleepBeforeRequest

\* C6, amended: testMMS and the TorchServe script sleep between the start of a
\* server and the first request to it; the TensorFlow Serving script never
\* sleeps: its client runs directly after the server was started.
C6_SleepInMmsAndTorchServe ==
    /\ prog \in {"testMMS", "testTorchServe"} => SleepBeforeRequest
    /\ prog = "testTFServing" =>
          /\ Count(trace, IsSleep) = 0
          /\ \A j \in DOMAIN trace :
                IsRequest(trace[j]) => (j > 1 /\ IsStart(trace[j - 1]))

C6_Witness ==
    /\ prog = "testMMS"
    /\ Count(trace, IsStart) = 2
    /\ trace[Len(trace)][1] = "curl -X POST"

\* the HTTP requests between a start and the stop that matches it
HttpBetween(i, j) == SelectSeq(SubSeq(trace, i + 1, j - 1), IsHttp)

Matching(i, j) ==
    /\ i < j /\ IsStart(trace[i]) /\ IsStop(trace[j])
    /\ \A k \in (i + 1) .. (j - 1) : ~IsStart(trace[k]) /\ ~IsStop(trace[k])

\* no request is sent twice to the same server
NoRetry ==
    \A i, j \in DOMAIN trace :
        (i < j /\ IsHttp(trace[i]) /\ trace[i] = trace[j])
            => \E k \in (i + 1) .. (j - 1) : IsStart(trace[k])

\* C7 as stated: in testMMS and the TorchServe script exactly one HTTP request
\* lies between a server start and the matching stop, and none is repeated.
C7_OneRequestPerServer ==
    prog \in {"testMMS", "testTorchServe"} =>
        /\ \A i, j \in DOMAIN trace : Matching(i, j) => Len(HttpBetween(i, j)) = 1
        /\ NoRetry

\* C7, amended: between a server start and the matching stop testMMS sends
\* exactly two HTTP requests, the PUT to the management port 8081 of
\* start_mms_server and then the one prediction POST to port 8080; the
\* TorchServe script sends exactly one; no request is sent a second time.
C7_RequestsPerServer ==
    /\ prog = "testMMS" =>
          \A i, j \in DOMAIN trace : Matching(i, j) =>
              /\ Len(HttpBetween(i, j)) = 2
              /\ HttpBetween(i, j)[1][1] = "curl -X PUT"
              /\ HttpBetween(i, j)[2][1] = "curl -X POST"
    /\ prog = "testTorchServe" =>
          \A i, j \in DOMAIN trace : Matching(i, j) =>
              /\ Len(HttpBetween(i, j)) = 1
              /\ HttpBetween(i, j)[1][1] = "curl -T"
    /\ prog \in {"testMMS", "testTorchServe"} => NoRetry

C7_Witness ==
    /\ prog = "testMMS"
    /\ Count(trace, IsStop) = 2
    /\ status = 0

\* what the container is to run: Elasticsearch as a daemon, then Kibana on
\* 0.0.0.0:5601, both as the user elasticsearch
ExpectedProcs ==
    << [exe |-> <<"opt", "elasticsearch", "bin", "elasticsearch">>,
        args |-> <<"-d">>, user |-> "elasticsearch"],
       [exe |-> <<"opt", "kibana", "bin", "kibana">>,
        args |-> <<"-H", "0.0.0.0", "-p", "5601">>, user |-> "elasticsearch"] >>

\* C8: the image's ENTRYPOINT is /opt/entrypoint.sh, a file that exists and is
\* executable, and its USER is the non-root user elasticsearch; the started
\* container launches Elasticsearch with -d first and then Kibana with
\* -H 0.0.0.0 -p 5601, both as elasticsearch, and then stays in the
\* foreground with Kibana: it launches nothing else and does not exit.
C8_EntrypointLaunchesBoth ==
    prog = "docker" =>
        /\ pc \in {"built", "entrypoint", "foreground"} =>
              /\ image.entrypoint = <<"opt", "entrypoint.sh">>
              /\ image.entrypoint \in DOMAIN fs
              /\ fs[image.entrypoint].exec
              /\ image.user = "elasticsearch"
              /\ image.user \in image.users
              /\ image.user # "root"
        /\ IsPrefix(procs, ExpectedProcs)
        /\ pc = "foreground" <=> procs = ExpectedProcs
        /\ pc = "built" => ~Exited
        /\ ip > 0 => ~Exited

C8_Witness ==
    /\ prog = "docker" /\ pc = "foreground"
    /\ Len(procs) = 2
    /\ procs[2].exe = <<"opt", "kibana", "bin", "kibana">>

\* the first epoch of h whose score is the lowest / the highest
FirstArgMin(h) ==
    CHOOSE i \in DOMAIN h :
        /\ \A j \in DOMAIN h : h[i].score <= h[j].score
        /\ \A j \in 1 .. (i - 1) : h[j].score > h[i].score

FirstArgMax(h) ==
    CHOOSE i \in DOMAIN h :
        /\ \A j \in DOMAIN h : h[i].score >= h[j].score
        /\ \A j \in 1 .. (i - 1) : h[j].score < h[i].score

\* C9: the test evaluation of the transformer tutorial runs with the
\* parameters the model had at the end of the epoch with the lowest
\* validation loss.
C9_TestUsesBestEpochParams ==
    (prog = "transformer" /\ pc = "done") =>
        test_params = history[FirstArgMin(history)].params

\* C10 as stated: train_model returns the model loaded with the weights of the
\* first epoch with the highest validation accuracy, and best_acc is the
\* highest validation accuracy, whatever the accuracies are.
C10_BestWeightsAnyAccuracies ==
    (prog = "train_model" /\ pc = "done" /\ history # <<>>) =>
        /\ model = history[FirstArgMax(history)].params
        /\ best_acc = history[FirstArgMax(history)].score

\* C10, amended: train_model returns the model loaded with the weights of the
\* first epoch with the highest validation accuracy when that accuracy is
\* above 0, and with the weights it was called with when no epoch had a
\* validation accuracy above 0 (or there was no epoch); best_acc is the
\* highest validation accuracy, 0 when there was no epoch.
C10_BestWeightsAboveZero ==
    (prog = "train_model" /\ pc = "done") =>
        IF history # <<>> /\ history[FirstArgMax(history)].score > 0
        THEN /\ model = history[FirstArgMax(history)].params
             /\ best_acc = history[FirstArgMax(history)].score
        ELSE /\ model = 0
             /\ best_acc = 0

C10_Witness ==
    /\ prog = "train_model" /\ pc = "done"
    /\ Len(history) = 3
    /\ history[1].score = 1 /\ history[2].score = 2 /\ history[3].score = 2
    /\ model = history[2].params

\* C11: in train_model every epoch is a training phase followed by a
\* validation phase; the parameters change once per training batch and not
\* at all in the validation phase; scheduler.step() has been called once per
\* finished training phase: after the last training batch of the epoch and
\* before its validation phase.
C11_TrainThenValidate ==
    prog = "train_model" =>
        /\ phase \in {"train", "val"}
        /\ (pc \in {"L928", "L938", "L963"} /\ phase = "train") =>
              /\ Len(history) = epoch
              /\ pc = "L928" => (model = epoch * NumBatches /\ scheduler = epoch)
              /\ pc = "L938" =>
                    (model = epoch * NumBatches + batch /\ scheduler = epoch)
              /\ pc = "L963" =>
                    (model = (epoch + 1) * NumBatches /\ scheduler = epoch + 1)
        /\ (pc \in {"L928", "L938", "L963"} /\ phase = "val") =>
              /\ Len(history) = epoch
              /\ model = (epoch + 1) * NumBatches
              /\ scheduler = epoch + 1
        /\ pc = "L982" =>
              /\ epoch = num_epochs
              /\ Len(history) = num_epochs
              /\ model = num_epochs * NumBatches
              /\ scheduler = num_epochs
        /\ \A e \in DOMAIN history : history[e].params = e * NumBatches

C11_Witness ==
    /\ prog = "train_model" /\ pc = "L963" /\ phase = "val"
    /\ epoch = 1 /\ batch = NumBatches
    /\ scheduler = 2 /\ model = 2 * NumBatches

\* C12: batchify(data, bsz) arranges the n = len(data) tokens into bsz columns
\* of nbatch = floor(n / bsz) rows: column j (from 0) holds
\* data[j*nbatch .. (j+1)*nbatch - 1] in order, and the last n mod bsz tokens
\* appear nowhere in the result.
C12_BatchifyColumns ==
    (prog = "lm_data" /\ pc # "L1693") =>
        LET nbatch == Len(data) \div bsz IN
        /\ Len(source) = nbatch
        /\ \A r \in 1 .. nbatch :
              /\ Len(source[r]) = bsz
              /\ \A c \in 1 .. bsz : source[r][c] = data[(c - 1) * nbatch + r]
        /\ \A k \in (nbatch * bsz + 1) .. Len(data) :
              \A r \in 1 .. nbatch : \A c \in 1 .. bsz : source[r][c] # data[k]

\* the 26 letters with bsz 4: six rows, the first one A G M S, and Y, Z dropped
C12_Witness ==
    /\ prog = "lm_data" /\ pc # "L1693"
    /\ Len(data) = 26 /\ bsz = 4
    /\ Len(source) = 6
    /\ source[1] = <<1, 7, 13, 19>>
    /\ source[6] = <<6, 12, 18, 24>>

\* C13: every get_batch(source, i) of the batch loop is called with an i of
\* range(0, len(source) - 1, bptt) and returns as data the rows i .. i+seq_len-1
\* and as target the rows i+1 .. i+seq_len, flattened, with
\* 1 <= seq_len <= bptt and no row index beyond len(source) - 1.
C13_GetBatchChunks ==
    (prog = "lm_data" /\ got.i >= 0) =>
        /\ got.i % bptt = 0
        /\ got.i < Len(source) - 1
        /\ got.seq_len >= 1 /\ got.seq_len <= bptt
        /\ got.i + got.seq_len <= Len(source) - 1
        /\ Len(got.data) = got.seq_len
        /\ Len(got.target) = got.seq_len * bsz
        /\ \A k \in 1 .. got.seq_len :
              /\ got.data[k] = source[got.i + k]
              /\ \A c \in 1 .. bsz : got.target[(k - 1) * bsz + c] = source[got.i + 1 + k][c]

\* a last chunk that is shorter than bptt, of a source with several columns
C13_Witness ==
    /\ prog = "lm_data" /\ pc = "done"
    /\ bsz = 2 /\ bptt = 3
    /\ got.i = 3 /\ got.seq_len = 2
    /\ Len(source) = 6
    /\ got.target = <<5, 11, 6, 12>>

\* C14: the mask train() holds is square, of the size of the chunk it is used
\* with, and its entry [i][j] is 0.0 when j <= i and -inf when j > i.
C14_MaskHidesFuture ==
    (prog = "lm_data" /\ src_mask # <<>>) =>
        /\ Len(src_mask) \in {bptt, got.seq_len}
        /\ \A r \in 1 .. Len(src_mask) :
              /\ Len(src_mask[r]) = Len(src_mask)
              /\ \A c \in 1 .. Len(src_mask) :
                    src_mask[r][c] = IF c <= r THEN "0.0" ELSE "-inf"

C14_Witness ==
    /\ prog = "lm_data" /\ pc = "L1797"
    /\ src_mask = << <<"0.0", "-inf", "-inf">>,
                     <<"0.0", "0.0", "-inf">>,
                     <<"0.0", "0.0", "0.0">> >>

\* the least validation loss of the epochs evaluated and compared so far,
\* float("inf") before the first
MinScore(h) ==
    IF h = <<>> THEN Inf
    ELSE CHOOSE m \in {h[k].score : k \in DOMAIN h} : \A k \in DOMAIN h : m <= h[k].score

\* scheduler.step() calls so far equal the finished epochs; inside epoch e
\* train() has run e times and evaluate() e times before the step of line 1866
TrStepAfterTrainAndEvaluate ==
    /\ pc = "L1854" => (scheduler = epoch - 1 /\ model = epoch - 1 /\ Len(history) = epoch - 1)
    /\ pc = "L1855" => (scheduler = epoch - 1 /\ model = epoch /\ Len(history) = epoch - 1)
    /\ pc = "L1862" => (scheduler = epoch - 1 /\ model = epoch /\ Len(history) = epoch - 1)
    /\ pc = "L1866" => (scheduler = epoch - 1 /\ model = epoch /\ Len(history) = epoch)
    /\ pc \in {"L1941", "done", "raised"} =>
          (epoch = epochs /\ scheduler = epochs /\ model = epochs /\ Len(history) = epochs)

\* C15: in the transformer tutorial's epoch loop best_val_loss never
\* increases and equals the least validation loss of the epochs compared so
\* far, and scheduler.step() is called exactly once per epoch, after that
\* epoch's train() and evaluate().
C15_BestValLossIsMinimum ==
    /\ [](prog = "transformer" =>
            /\ best_val_loss = MinScore(history)
            /\ TrStepAfterTrainAndEvaluate)
    /\ [][prog = "transformer" => best_val_loss' <= best_val_loss]_vars

\* the second epoch validated worse than the first and left best_val_loss alone
C15_Witness ==
    /\ prog = "transformer" /\ pc = "L1866"
    /\ epoch = 2 /\ Len(history) = 2
    /\ history[2].score > history[1].score
    /\ best_val_loss = history[1].score
    /\ scheduler = 1

\* C16: when lineToTensor has finished, every row li of the tensor has
\* exactly one entry equal to 1, at the index of line[li] in all_letters,
\* and 0 everywhere else, for every line predict() can be given.
C16_OneHotAtLetterIndex ==
    (prog = "predict" /\ pc = "done") =>
        /\ Len(tensor) = Len(input_line)
        /\ \A p \in 1 .. Len(input_line) :
              \E idx \in 1 .. n_letters :
                  /\ all_letters[idx] = input_line[p]
                  /\ \A k \in 1 .. n_letters :
                        tensor[p][1][k] = IF k = idx THEN 1 ELSE 0

\* the sum of losses[a .. b]
RECURSIVE SumRange(_, _, _)
SumRange(s, a, b) == IF a > b THEN 0 ELSE s[a] + SumRange(s, a + 1, b)

\* C17: in the char-RNN training loop all_losses has one entry per plot_every
\* finished iterations, entry k is the sum of the losses of iterations
\* (k-1)*plot_every+1 .. k*plot_every divided by plot_every, current_loss is
\* the sum of the losses since the last entry (0 right after one), and after
\* n_iters iterations all_losses has n_iters / plot_every entries.
C17_AllLossesAreWindowAverages ==
    prog = "rnn_train" =>
        LET finished == Len(losses) IN
        /\ finished = IF pc = "done" THEN n_iters ELSE iter - 1
        /\ Len(all_losses) = finished \div plot_every
        /\ \A k \in DOMAIN all_losses :
              all_losses[k] = <<SumRange(losses, (k - 1) * plot_every + 1, k * plot_every),
                                plot_every>>
        /\ current_loss = SumRange(losses, Len(all_losses) * plot_every + 1, finished)
        /\ pc = "done" => Len(all_losses) = n_iters \div plot_every

\* four iterations plotted every two: the second average is of the third and
\* fourth loss only
C17_Witness ==
    /\ prog = "rnn_train" /\ pc = "done"
    /\ n_iters = 4 /\ plot_every = 2
    /\ losses = <<3, 3, 1, 2>>
    /\ all_losses = << <<6, 2>>, <<3, 2>> >>
    /\ current_loss = 0

TestScripts == {"testMXNet", "testPyTorch", "testTFServing"}

\* a test step: a command followed by || exit 1
IsTestStep(e) == e[1] \in {"testMXNetHelper", "python", "mnist_saved_model.py", "mnist_client.py"}

\* the script ran to its last line
EndReached == IF prog = "testPyTorch" THEN pc = "end" ELSE status = 0

\* C18: in the MXNet, PyTorch-MNIST and TensorFlow-Serving test scripts a
\* test step that fails is the last command the script runs and the script's
\* status is 1; the end of the script is reached only if both test steps ran
\* and succeeded.
C18_FailingStepExitsAtOnce ==
    prog \in TestScripts =>
        /\ Count(trace, IsTestStep) = Len(results)
        /\ \A k \in DOMAIN results :
              results[k] # 0 =>
                  /\ k = Len(results)
                  /\ status = 1 /\ pc = "exited"
                  /\ IsTestStep(trace[Len(trace)])
        /\ EndReached => (results = <<0, 0>>)

\* the first environment's test failed: the second was never activated
C18_Witness ==
    /\ prog = "testMXNet" /\ results = <<1>>
    /\ status = 1
    /\ trace = << <<"git clone", "incubator-mxnet">>, <<"source activate", "mxnet_p36">>,
                  <<"testMXNetHelper", "python">> >>

\* C19: in testMMS at most one server started by the script is running at
\* any time, and between two starts of a server stop_mms_server has stopped
\* the earlier one.
C19_OneServerAtATime ==
    prog = "testMMS" =>
        /\ servers \in {0, 1}
        /\ \A a, b \in DOMAIN trace :
              (a < b /\ IsStart(trace[a]) /\ IsStart(trace[b])) =>
                  \E c \in (a + 1) .. (b - 1) : trace[c] = <<"multi-model-server --stop", "">>

\* the server of mxnet_latest_p37 is up, after the one of mxnet_p36 was stopped
C19_Witness ==
    /\ prog = "testMMS" /\ env = "mxnet_latest_p37"
    /\ Count(trace, IsStart) = 2
    /\ Count(trace, IsStop) = 1
    /\ servers = 1

\* C20: the tweet listener never asks the stream to stop: every on_data call
\* returned True, and no on_error call returned False.
C20_ListenerNeverStops ==
    prog = "sentiment" =>
        /\ \A k \in DOMAIN calls : calls[k].result = "True"
        /\ \A k \in DOMAIN errors : errors[k].result # "False"

====
